---- MODULE Spec2Model ----
(***************************************************************************)
(* The 'moduleCallGraph.generate' command of src/src/extension.ts: the     *)
(* folder walk, the definition pass that fills the symbol table `defs`,    *)
(* the call pass that fills `edgesMap`, and the node list of the diagram.  *)
(*                                                                         *)
(* A file's text is a sequence of tokens, each standing for a fixed piece  *)
(* of C text, so that the two regular expressions and the comment          *)
(* stripping are computed on offsets as the code computes them:            *)
(*   def n     "void n(){}"   funcRegex matches at the token's start,      *)
(*                            callRegex matches the name, 5 chars later    *)
(*   call n    "n();"         callRegex matches at the token's start       *)
(*   comment   "/*c*/"        removed by the comment-stripping replace     *)
(* Module names are assumed not to contain "->", so that the string key    *)
(* `${from}->${to}` of edgesMap identifies the pair (from, to).            *)
(***************************************************************************)
EXTENDS Integers, Sequences, FiniteSets, TLC

\* Bound of the model: the number of tokens in all files of a folder together.
MaxTokens == 3

\* Function names occurring in the texts.
Names == {"f", "g"}

Tokens ==
    [kind : {"def", "call"}, name : Names] \cup {[kind |-> "comment", name |-> "-"]}

\* Length in characters of the text a token stands for.
Width(tok) ==
    CASE tok.kind = "def" -> 10
      [] tok.kind = "call" -> 4
      [] tok.kind = "comment" -> 5

\* Offset of the token's identifier from the token's start.
NameAt(tok) == IF tok.kind = "def" THEN 5 ELSE 0

RECURSIVE TextLen(_)
TextLen(text) ==
    IF text = <<>> THEN 0 ELSE Width(Head(text)) + TextLen(Tail(text))

\* Offset in `text` of the start of its i-th token.
OffsetOf(text, i) == TextLen(SubSeq(text, 1, i - 1))

Range(s) == {s[i] : i \in DOMAIN s}

Last(s) == s[Len(s)]

----------------------------------------------------------------------------
(* The file system: a directory listing is a sequence of entries. *)

Exts == {".c", ".cpp", ".hpp", ".h"}

Entry(base, ext, isDir, list) ==
    [base |-> base, ext |-> ext, isDir |-> isDir, list |-> list]

FileA == Entry("a", ".c", FALSE, <<>>)
FileB == Entry("b", ".c", FALSE, <<>>)
FileH == Entry("a", ".h", FALSE, <<>>)
FileN == Entry("notes", ".txt", FALSE, <<>>)
DirInc == Entry("inc", "", TRUE, <<FileN, FileH>>)

RootEntries == {FileA, FileB, DirInc}

\* The listings of the selected folder: every ordering of every subset.
RootLists ==
    {s \in UNION {[1..n -> RootEntries] : n \in 0..Cardinality(RootEntries)} :
        \A i, j \in DOMAIN s : i # j => s[i] # s[j]}

\* path.join(dir, file): a path is its directory and its file name.
PathOf(dir, e) == [dir |-> dir, base |-> e.base, ext |-> e.ext]

\* path.basename(file, path.extname(file))
ModuleOf(file) == file.base

RECURSIVE walkFiles(_, _)
walkFiles(dir, list) ==
    IF list = <<>> THEN <<>>
    ELSE LET e == Head(list)
             here == IF e.isDir THEN walkFiles(dir \o <<e.base>>, e.list)
                     ELSE IF e.ext \in Exts THEN <<PathOf(dir, e)>>
                     ELSE <<>>
         IN  here \o walkFiles(dir, Tail(list))

----------------------------------------------------------------------------
(* The two scanners. *)

\* Every token of a text with the offset of its start.
Located(text) ==
    [i \in DOMAIN text |->
        [kind |-> text[i].kind, name |-> text[i].name, at |-> OffsetOf(text, i)]]

IsDefToken(t) == t.kind = "def"

IsCode(tok) == tok.kind # "comment"

\* The successive matches of funcRegex in the raw text: name and match.index.
funcRegexMatches(text) ==
    LET hits == SelectSeq(Located(text), IsDefToken)
    IN  [i \in DOMAIN hits |-> [name |-> hits[i].name, index |-> hits[i].at]]

\* text.replace(/\/\*[\s\S]*?\*\/|\/\/.*/g, '')
StripComments(text) == SelectSeq(text, IsCode)

\* The successive matches of callRegex in the comment-stripped text: an
\* identifier followed by "(", which the name of a definition is too.
callRegexMatches(noComments) ==
    LET toks == Located(noComments)
    IN  [i \in DOMAIN toks |->
            [name |-> toks[i].name, index |-> toks[i].at + NameAt(toks[i])]]

----------------------------------------------------------------------------
(* The definition pass. *)

FunctionDef(name, module, start) ==
    [name |-> name, module |-> module, start |-> start]

\* funcs of one file: one FunctionDef per match, in match order.
ScanDefs(file, text) ==
    LET m == funcRegexMatches(text)
    IN  [i \in DOMAIN m |-> FunctionDef(m[i].name, ModuleOf(file), m[i].index)]

\* Mutant of DefsSet: a name already in the table keeps its first definition.
DefsSetKeepFirst(d, funcDef) ==
    [n \in DOMAIN d \cup {funcDef.name} |-> IF n \in DOMAIN d THEN d[n] ELSE funcDef]

\* defs.set(funcDef.name, funcDef)
DefsSet(d, funcDef) ==
    [n \in DOMAIN d \cup {funcDef.name} |-> IF n = funcDef.name THEN funcDef ELSE d[n]]

\* Mutant of DefsSetAll: the table is created anew for every file.
DefsSetAllFresh(d, funcs) ==
    [n \in {funcs[i].name : i \in DOMAIN funcs} |->
        LET hits == {i \in DOMAIN funcs : funcs[i].name = n}
        IN  funcs[CHOOSE i \in hits : \A j \in hits : j <= i]]

RECURSIVE DefsSetAll(_, _)
DefsSetAll(d, funcs) ==
    IF funcs = <<>> THEN d ELSE DefsSetAll(DefsSet(d, Head(funcs)), Tail(funcs))

\* fileFuncMap.set(file, funcs)
FileFuncSet(m, file, funcs) ==
    [p \in DOMAIN m \cup {file} |-> IF p = file THEN funcs ELSE m[p]]

----------------------------------------------------------------------------
(* The call pass. *)

SyntheticCaller(moduleName) == FunctionDef("<module>", moduleName, 0)

\* Mutant of CallerOf: the comparison is f.start < matchIndex.
CallerOfStrict(funcsInFile, moduleName, matchIndex) ==
    LET before == SelectSeq(funcsInFile, LAMBDA f : f.start < matchIndex)
    IN  IF before = <<>> THEN SyntheticCaller(moduleName) ELSE Last(before)

\* funcsInFile.filter(f => f.start <= matchIndex).slice(-1)[0], or the synthetic caller
CallerOf(funcsInFile, moduleName, matchIndex) ==
    LET before == SelectSeq(funcsInFile, LAMBDA f : f.start <= matchIndex)
    IN  IF before = <<>> THEN SyntheticCaller(moduleName) ELSE Last(before)

Edge(from, to, functions) ==
    [fromModule |-> from, toModule |-> to, functions |-> functions]

HasEdge(em, from, to) ==
    \E i \in DOMAIN em : em[i].fromModule = from /\ em[i].toModule = to

\* Mutant of PushFunction: the name is pushed without the includes test.
PushFunctionAlways(functions, calleeName) == Append(functions, calleeName)

\* if (!edge.functions.includes(calleeName)) edge.functions.push(calleeName)
PushFunction(functions, calleeName) ==
    IF calleeName \in Range(functions) THEN functions ELSE Append(functions, calleeName)

\* Lines 89-93: the edge of the key is created when absent, then the name is added.
AddToEdgesMap(em, from, to, calleeName) ==
    LET withKey == IF HasEdge(em, from, to) THEN em ELSE Append(em, Edge(from, to, <<>>))
    IN  [i \in DOMAIN withKey |->
            IF withKey[i].fromModule = from /\ withKey[i].toModule = to
            THEN Edge(from, to, PushFunction(withKey[i].functions, calleeName))
            ELSE withKey[i]]

\* defs.get(calleeName) is undefined
Unresolved(d, calleeName) == calleeName \notin DOMAIN d

\* Mutant of SameModule: the functions' names are compared, not their modules.
SameName(caller, calleeDef) == caller.name = calleeDef.name

\* callerFunc.module === calleeDef.module
SameModule(caller, calleeDef) == caller.module = calleeDef.module

\* Mutant of ResolveCall: the edge runs from the callee's module to the caller's.
ResolveCallSwapped(em, d, funcsInFile, moduleName, match) ==
    LET caller == CallerOf(funcsInFile, moduleName, match.index)
    IN  IF Unresolved(d, match.name) THEN em
        ELSE IF SameModule(caller, d[match.name]) THEN em
        ELSE AddToEdgesMap(em, d[match.name].module, caller.module, match.name)

\* The body of the loop over the call matches of one file (lines 79-93).
ResolveCall(em, d, funcsInFile, moduleName, match) ==
    LET caller == CallerOf(funcsInFile, moduleName, match.index)
    IN  IF Unresolved(d, match.name) THEN em
        ELSE IF SameModule(caller, d[match.name]) THEN em
        ELSE AddToEdgesMap(em, caller.module, d[match.name].module, match.name)

\* new Set(Array.from(defs.values()).map(d => d.module))
ModuleNames(d) == {d[n].module : n \in DOMAIN d}

----------------------------------------------------------------------------
(* The run of the command. *)

VARIABLES
    pc,           \* where the command handler is
    root,         \* the listing of the selected folder
    content,      \* the text of every source file under it
    files,        \* the result of walkFiles
    defs,         \* the symbol table: function name -> FunctionDef
    fileFuncMap,  \* file -> its FunctionDefs in match order
    edgesMap,     \* the edges in insertion order
    fi,           \* index in files of the file the current loop is at
    sites,        \* the callRegex matches of the file open in the call pass
    ci,           \* index in sites of the next match; 0 when no file is open
    callerFunc,   \* the callerFunc of the last match looked at
    calleeDef,    \* the calleeDef of the last match looked at
    moduleNames   \* the nodes of the diagram

vars ==
    <<pc, root, content, files, defs, fileFuncMap, edgesMap, fi, sites, ci,
      callerFunc, calleeDef, moduleNames>>

\* The value of a local that holds no FunctionDef.
Undefined == FunctionDef("", "", 0)

TokenSeqs == UNION {[1..n -> Tokens] : n \in 0..MaxTokens}

\* The tokens of toks that owner gives to the j-th file.
TextFor(toks, owner, j) == SelectSeq(
    [i \in DOMAIN toks |-> IF owner[i] = j THEN toks[i] ELSE [kind |-> "none", name |-> "-"]],
    LAMBDA t : t.kind # "none")

\* The ways of cutting toks into the texts of the files of fs, in order.
Owners(toks, fs) ==
    {o \in [DOMAIN toks -> DOMAIN fs] : \A i, j \in DOMAIN toks : i <= j => o[i] <= o[j]}

IndexOf(fs, file) == CHOOSE i \in DOMAIN fs : fs[i] = file

Init ==
    /\ pc = "start"
    /\ root = <<>>
    /\ content = <<>>
    /\ files = <<>>
    /\ defs = <<>>
    /\ fileFuncMap = <<>>
    /\ edgesMap = <<>>
    /\ fi = 0
    /\ sites = <<>>
    /\ ci = 0
    /\ callerFunc = Undefined
    /\ calleeDef = Undefined
    /\ moduleNames = {}

\* if (!folders) { showErrorMessage('Open a project first'); return; }
NoWorkspace ==
    /\ pc = "start"
    /\ pc' = "noWorkspace"
    /\ UNCHANGED <<root, content, files, defs, fileFuncMap, edgesMap, fi, sites, ci,
                   callerFunc, calleeDef, moduleNames>>

\* if (!folderUri || folderUri.length === 0) { showErrorMessage(...); return; }
NoFolderSelected ==
    /\ pc = "start"
    /\ pc' = "noFolder"
    /\ UNCHANGED <<root, content, files, defs, fileFuncMap, edgesMap, fi, sites, ci,
                   callerFunc, calleeDef, moduleNames>>

\* readdirSync or statSync throws inside walkFiles: nothing catches it.
WalkThrows ==
    /\ pc = "start"
    /\ \E r \in RootLists : root' = r
    /\ pc' = "threw"
    /\ UNCHANGED <<content, files, defs, fileFuncMap, edgesMap, fi, sites, ci,
                   callerFunc, calleeDef, moduleNames>>

\* if (files.length === 0) { showWarningMessage(...); return; }
NoSourceFiles ==
    /\ pc = "start"
    /\ \E r \in RootLists :
        /\ walkFiles(<<>>, r) = <<>>
        /\ root' = r
    /\ pc' = "noFiles"
    /\ UNCHANGED <<content, files, defs, fileFuncMap, edgesMap, fi, sites, ci,
                   callerFunc, calleeDef, moduleNames>>

\* A folder is selected and walked; the maps are created empty.
SelectFolder ==
    /\ pc = "start"
    /\ \E r \in RootLists, toks \in TokenSeqs :
        LET fs == walkFiles(<<>>, r)
        IN  /\ fs # <<>>
            /\ \E owner \in Owners(toks, fs) :
                /\ root' = r
                /\ files' = fs
                /\ content' = [p \in Range(fs) |-> TextFor(toks, owner, IndexOf(fs, p))]
    /\ pc' = "defs"
    /\ fi' = 1
    /\ UNCHANGED <<defs, fileFuncMap, edgesMap, sites, ci, callerFunc, calleeDef, moduleNames>>

\* fs.readFileSync throws in either loop: nothing catches it.
ReadFileThrows ==
    /\ \/ pc = "defs"
       \/ pc = "calls" /\ ci = 0
    /\ pc' = "threw"
    /\ UNCHANGED <<root, content, files, defs, fileFuncMap, edgesMap, fi, sites, ci,
                   callerFunc, calleeDef, moduleNames>>

\* Mutant of CollectDefs: the call pass starts once the first file is scanned.
CollectDefsThenCalls ==
    /\ pc = "defs"
    /\ LET file == files[fi]
           funcs == ScanDefs(file, content[file])
       IN  /\ defs' = DefsSetAll(defs, funcs)
           /\ fileFuncMap' = FileFuncSet(fileFuncMap, file, funcs)
    /\ fi' = 1
    /\ pc' = "calls"
    /\ UNCHANGED <<root, content, files, edgesMap, sites, ci, callerFunc, calleeDef, moduleNames>>

\* One iteration of the first loop over files (lines 50-64).
CollectDefs ==
    /\ pc = "defs"
    /\ LET file == files[fi]
           funcs == ScanDefs(file, content[file])
       IN  /\ defs' = DefsSetAll(defs, funcs)
           /\ fileFuncMap' = FileFuncSet(fileFuncMap, file, funcs)
    /\ IF fi < Len(files)
       THEN fi' = fi + 1 /\ pc' = pc
       ELSE fi' = 1 /\ pc' = "calls"
    /\ UNCHANGED <<root, content, files, edgesMap, sites, ci, callerFunc, calleeDef, moduleNames>>

\* The head of an iteration of the second loop over files (lines 70-76).
OpenForCalls ==
    /\ pc = "calls"
    /\ ci = 0
    /\ sites' = callRegexMatches(StripComments(content[files[fi]]))
    /\ ci' = 1
    /\ UNCHANGED <<pc, root, content, files, defs, fileFuncMap, edgesMap, fi,
                   callerFunc, calleeDef, moduleNames>>

\* Which of the three ways through the loop body a match takes.
BranchOf(d, caller, match) ==
    IF Unresolved(d, match.name) THEN "unresolved"
    ELSE IF SameModule(caller, d[match.name]) THEN "sameModule"
    ELSE "add"

\* defs.get(calleeName)
DefsGet(d, calleeName) == IF Unresolved(d, calleeName) THEN Undefined ELSE d[calleeName]

\* The file, the match and the callerFunc of the iteration the call loop is at.
CurFile == files[fi]

CurMatch == sites[ci]

CurCaller == CallerOf(fileFuncMap[CurFile], ModuleOf(CurFile), CurMatch.index)

InCallLoop == pc = "calls" /\ ci >= 1 /\ ci <= Len(sites)

\* One iteration of the loop over the call matches (lines 78-94).
CallStep ==
    /\ callerFunc' = CurCaller
    /\ calleeDef' = DefsGet(defs, CurMatch.name)
    /\ edgesMap' =
        ResolveCall(edgesMap, defs, fileFuncMap[CurFile], ModuleOf(CurFile), CurMatch)
    /\ ci' = ci + 1
    /\ UNCHANGED <<pc, root, content, files, defs, fileFuncMap, fi, sites, moduleNames>>

\* if (!calleeDef) continue;
SkipUnresolved ==
    /\ InCallLoop
    /\ BranchOf(defs, CurCaller, CurMatch) = "unresolved"
    /\ CallStep

\* if (callerFunc.module === calleeDef.module) continue;
SkipSameModule ==
    /\ InCallLoop
    /\ BranchOf(defs, CurCaller, CurMatch) = "sameModule"
    /\ CallStep

\* Lines 89-93.
AddCall ==
    /\ InCallLoop
    /\ BranchOf(defs, CurCaller, CurMatch) = "add"
    /\ CallStep

\* callRegex.exec returns null: the second loop goes to the next file, or ends.
CloseFile ==
    /\ pc = "calls"
    /\ ci > Len(sites)
    /\ ci' = 0
    /\ sites' = <<>>
    /\ IF fi < Len(files)
       THEN fi' = fi + 1 /\ pc' = pc
       ELSE fi' = fi /\ pc' = "render"
    /\ UNCHANGED <<root, content, files, defs, fileFuncMap, edgesMap, callerFunc,
                   calleeDef, moduleNames>>

\* Lines 97-105: the node list and the edge lines of the diagram.
BuildDiagram ==
    /\ pc = "render"
    /\ moduleNames' = ModuleNames(defs)
    /\ pc' = "done"
    /\ UNCHANGED <<root, content, files, defs, fileFuncMap, edgesMap, fi, sites, ci,
                   callerFunc, calleeDef>>

Next ==
    \/ NoWorkspace
    \/ NoFolderSelected
    \/ WalkThrows
    \/ NoSourceFiles
    \/ SelectFolder
    \/ ReadFileThrows
    \/ CollectDefs
    \/ OpenForCalls
    \/ SkipUnresolved
    \/ SkipSameModule
    \/ AddCall
    \/ CloseFile
    \/ BuildDiagram

Spec == Init /\ [][Next]_vars

----------------------------------------------------------------------------
(* What the claims speak of. *)

\* The command ran both loops to their end and built the diagram.
Finished == pc = "done"

\* The first loop over files has ended and the command did not throw.
DefsPassOver == pc \in {"calls", "render", "done"}

EdgeSet(em) ==
    {[fromModule |-> e.fromModule, toModule |-> e.toModule, functions |-> Range(e.functions)] :
        e \in Range(em)}

\* The names a file defines and the names it calls, read off its text.
DefinedIn(file) == {t.name : t \in {x \in Range(content[file]) : x.kind = "def"}}

CalledIn(file) == {m.name : m \in Range(callRegexMatches(StripComments(content[file])))}

ScannedNames == UNION {DefinedIn(p) : p \in Range(files)}

\* The whole definition pass and the whole call pass over the files in order fs.
RECURSIVE DefPass(_, _)
DefPass(d, fs) ==
    IF fs = <<>> THEN d
    ELSE DefPass(DefsSetAll(d, ScanDefs(Head(fs), content[Head(fs)])), Tail(fs))

RECURSIVE CallsOfFile(_, _, _, _)
CallsOfFile(em, d, file, matches) ==
    IF matches = <<>> THEN em
    ELSE CallsOfFile(
            ResolveCall(em, d, ScanDefs(file, content[file]), ModuleOf(file), Head(matches)),
            d, file, Tail(matches))

RECURSIVE CallPass(_, _, _)
CallPass(em, d, fs) ==
    IF fs = <<>> THEN em
    ELSE CallPass(
            CallsOfFile(em, d, Head(fs), callRegexMatches(StripComments(content[Head(fs)]))),
            d, Tail(fs))

RunEdges(fs) == CallPass(<<>>, DefPass(<<>>, fs), fs)

Orders(fs) == {[i \in DOMAIN fs |-> fs[p[i]]] : p \in Permutations(DOMAIN fs)}

\* C1: in the final graph both ends of every edge are nodes of the diagram.
C1_EdgeEndsAreModules ==
    Finished =>
        \A e \in Range(edgesMap) :
            e.fromModule \in moduleNames /\ e.toModule \in moduleNames

NoCrossModuleDuplicate ==
    \A p, q \in Range(files) :
        DefinedIn(p) \cap DefinedIn(q) # {} => ModuleOf(p) = ModuleOf(q)

C3_ModulesAreAllDefiningModules ==
    Finished =>
        moduleNames = {ModuleOf(p) : p \in {q \in Range(files) : fileFuncMap[q] # <<>>}}

\* The last match of the name n in the last file of fs that defines n.
LastDefinition(fs, n) ==
    LET owners == {i \in DOMAIN fs : n \in DefinedIn(fs[i])}
        k == CHOOSE i \in owners : \A j \in owners : j <= i
        funcs == fileFuncMap[fs[k]]
        hits == {i \in DOMAIN funcs : funcs[i].name = n}
    IN  funcs[CHOOSE i \in hits : \A j \in hits : j <= i]

\* C4: after the definition pass the symbol table holds, for each scanned name
\* and no other, the definition inserted last; a call of that name resolves to
\* that definition, and every edge that lists the name leads to its module.
C4_LastDefinitionWins ==
    DefsPassOver =>
        /\ DOMAIN defs = ScannedNames
        /\ \A n \in ScannedNames : defs[n] = LastDefinition(files, n)
        /\ (pc = "calls" /\ ci >= 2 /\ sites[ci - 1].name \in ScannedNames) =>
                calleeDef = LastDefinition(files, sites[ci - 1].name)
        /\ \A e \in Range(edgesMap) : \A n \in Range(e.functions) :
                e.toModule = LastDefinition(files, n).module

C4_Witness ==
    /\ pc = "calls"
    /\ ci >= 2
    /\ \E i, j \in DOMAIN files :
        /\ i < j
        /\ ModuleOf(files[i]) # ModuleOf(files[j])
        /\ sites[ci - 1].name \in DefinedIn(files[i]) \cap DefinedIn(files[j])
        /\ calleeDef.module = ModuleOf(files[j])
    /\ edgesMap # <<>>

\* C5: no edge ever joins a module to itself, and a call whose callee is
\* defined in the caller's own module leaves the edges as they are.
C5_NoSelfEdge ==
    /\ [](\A e \in Range(edgesMap) : e.fromModule # e.toModule)
    /\ [][(/\ InCallLoop
           /\ ~Unresolved(defs, CurMatch.name)
           /\ SameModule(CurCaller, defs[CurMatch.name])) => edgesMap' = edgesMap]_vars

C5_Witness ==
    /\ pc = "calls"
    /\ ci >= 2
    /\ calleeDef # Undefined
    /\ calleeDef.module = callerFunc.module
    /\ StripComments(content[CurFile])[ci - 1].kind = "call"
    /\ edgesMap # <<>>

C7_ReadFailureDoesNotAbort == pc # "threw"

\* C8: while the definition pass runs nothing is resolved and no edge exists;
\* from the start of the call pass on, every file has been scanned and the
\* symbol table is the finished one, unchanged.
C8_PhaseOrder ==
    /\ pc = "defs" =>
        /\ edgesMap = <<>>
        /\ ci = 0
        /\ callerFunc = Undefined
        /\ calleeDef = Undefined
    /\ DefsPassOver =>
        /\ DOMAIN fileFuncMap = Range(files)
        /\ defs = DefPass(<<>>, files)

C8_Witness ==
    /\ pc = "calls"
    /\ fi >= 2
    /\ edgesMap # <<>>
    /\ Len(files) >= 3

AttributedAsStated(synthetic) ==
    (pc = "calls" /\ ci >= 2) =>
        LET funcs == fileFuncMap[CurFile]
            o == sites[ci - 1].index
            before == {i \in DOMAIN funcs : funcs[i].start <= o}
        IN  /\ callerFunc.module = ModuleOf(CurFile)
            /\ IF before = {}
               THEN callerFunc = FunctionDef(synthetic, ModuleOf(CurFile), 0)
               ELSE \E i \in before :
                        /\ callerFunc = funcs[i]
                        /\ \A j \in before : funcs[j].start <= funcs[i].start

\* C10 as stated: the synthetic caller is named <module-level>.
C10_CallerNamedModuleLevel == AttributedAsStated("<module-level>")

\* C10 amended: a call site is attributed to the definition of its file with
\* the greatest start at or before it, else to a synthetic caller named
\* <module> of the file's module at offset 0.
C10_CallerAttribution == AttributedAsStated("<module>")

C10_Witness ==
    /\ pc = "calls"
    /\ ci >= 3
    /\ callerFunc.name \in Names
    /\ callerFunc.start = sites[ci - 1].index
    /\ \E i \in 1..(ci - 2) : CallerOf(fileFuncMap[CurFile], ModuleOf(CurFile),
                                        sites[i].index).name = "<module>"

====
